---------------------------- MODULE Spec2Model ----------------------------
(***************************************************************************)
(* A model of llm_axe/agents.py: the PdfReader, FunctionCaller,            *)
(* OnlineAgent and Agent classes, their constructors and public            *)
(* operations, with the LLM client and the collaborators of llm_axe.core   *)
(* (safe_read_json, get_yaml_prompt, generate_schema, internet_search,     *)
(* read_website, read_pdf) as the environment.                             *)
(*                                                                         *)
(* Python values are tagged records: [py |-> <type name>, ...].  A str is  *)
(* a sequence of chunks (atoms); concatenation is \o of the chunks.        *)
(***************************************************************************)
EXTENDS Naturals, Sequences, FiniteSets

VARIABLES pdfReader, functionCaller, onlineAgent, agent, last, prev, construction

vars == <<pdfReader, functionCaller, onlineAgent, agent, last, prev, construction>>

(***************************************************************************)
(* Bounds of the model.                                                    *)
(***************************************************************************)
MaxPaths == 2
MaxFunctions == 2

(***************************************************************************)
(* Python values.                                                          *)
(***************************************************************************)
None == [py |-> "NoneType", repr |-> "None"]

PyStr(chunks) == [py |-> "str", s |-> chunks]

PyList(items) == [py |-> "list", items |-> items]

PyDict(d, repr) == [py |-> "dict", d |-> d, repr |-> repr]

Exc(type) == [py |-> type, exception |-> TRUE]

IsExc(v) == "exception" \in DOMAIN v

EmptyStr == PyStr(<<>>)

Concat(a, b) == PyStr(a.s \o b.s)

\* str(v), as an f-string or str.format renders a value.
ToStr(v) == IF v.py = "str" THEN v ELSE PyStr(<<v.repr>>)

\* hash(v) succeeds: lists and dicts are unhashable.
Hashable(v) == v.py \notin {"list", "dict"}

\* key in d, for a dict d whose keys are str: the chunks of a key are one atom.
HasKey(d, key) == key.py = "str" /\ Len(key.s) = 1 /\ key.s[1] \in DOMAIN d.d

GetItem(d, key) == d.d[key.s[1]]

Return(v) == [kind |-> "return", value |-> v]

Raise(type) == [kind |-> "raise", value |-> Exc(type)]

Event(ev, arg, ret) == [ev |-> ev, arg |-> arg, ret |-> ret]

Message(role, content) == PyDict([role |-> PyStr(<<role>>), content |-> content], "message")


(***************************************************************************)
(* The collaborators of llm_axe.core.  Their code is not in agents.py;     *)
(* each is modelled at its interface.                                      *)
(***************************************************************************)

\* The placeholders a template may hold, each a chunk of its own, and the
\* keyword argument each one names.
Placeholders ==
  {"{documents}", "{additional_instructions}", "{schema}", "{question}", "{urls}",
   "{undefined}"}

FieldName(chunk) ==
  CASE chunk = "{documents}" -> "documents"
    [] chunk = "{additional_instructions}" -> "additional_instructions"
    [] chunk = "{schema}" -> "schema"
    [] chunk = "{question}" -> "question"
    [] chunk = "{urls}" -> "urls"
    [] OTHER -> "undefined"

RECURSIVE Substitute(_, _)
Substitute(chunks, kwargs) ==
  IF chunks = <<>> THEN <<>>
  ELSE (IF Head(chunks) \in Placeholders
        THEN ToStr(kwargs[FieldName(Head(chunks))]).s
        ELSE <<Head(chunks)>>) \o Substitute(Tail(chunks), kwargs)

\* template.format(**kwargs): every placeholder of the template is replaced by
\* str() of the argument it names; a placeholder naming no argument raises
\* KeyError, and an argument no placeholder names is ignored.  A value that
\* is not a str has no format method.
Format(template, kwargs) ==
  IF template.py # "str" THEN Exc("AttributeError")
  ELSE IF \E i \in 1..Len(template.s) :
            /\ template.s[i] \in Placeholders
            /\ FieldName(template.s[i]) \notin DOMAIN kwargs
       THEN Exc("KeyError")
       ELSE PyStr(Substitute(template.s, kwargs))

\* get_yaml_prompt("system_prompts.yaml", key): the stored template.
get_yaml_prompt(key) ==
  CASE key = "DocumentReader" ->
         PyStr(<<"You answer from these documents: ", "{documents}", "{additional_instructions}">>)
    [] key = "FunctionCaller" ->
         PyStr(<<"You pick one function of this schema: ", "{schema}", "{additional_instructions}">>)
    [] key = "OnlineSearcher" ->
         PyStr(<<"You write a search query as JSON. ", "{additional_instructions}">>)
    [] key = "UrlPicker" ->
         PyStr(<<"Pick the best url for: ", "{question}", " among: ", "{urls}">>)
    [] OTHER ->
         PyStr(<<"You are a helpful assistant. ", "{additional_instructions}">>)

\* AgentType.GENERIC_RESPONDER
GENERIC_RESPONDER ==
  [py |-> "AgentType", repr |-> "AgentType.GENERIC_RESPONDER", value |-> "GenericResponder"]

\* The JSON objects that occur in the model's texts, each one chunk.
J_weather == "{\"function\": \"get_weather\", \"parameters\": {\"city\": \"Paris\"}}"
J_flights == "{\"function\": \"get_flights\", \"parameters\": {}}"
J_listfn == "{\"function\": [\"get_weather\"], \"parameters\": {}}"
J_nofn == "{\"parameters\": {}}"
J_noparams == "{\"function\": \"get_weather\"}"
J_query == "{\"search_query\": \"capital of France\"}"
J_url_a == "{\"url\": \"http://a.example\"}"
J_url_x == "{\"url\": \"http://x.example\"}"

JsonSources == {J_weather, J_flights, J_listfn, J_nofn, J_noparams, J_query, J_url_a, J_url_x}

EmptyDict == PyDict(<<>>, "{}")

\* json.loads(src) for a chunk that is a well-formed JSON object.
JsonLoads(src) ==
  CASE src = J_weather ->
         PyDict([function |-> PyStr(<<"get_weather">>),
                 parameters |-> PyDict([city |-> PyStr(<<"Paris">>)], "{'city': 'Paris'}")], src)
    [] src = J_flights ->
         PyDict([function |-> PyStr(<<"get_flights">>), parameters |-> EmptyDict], src)
    [] src = J_listfn ->
         PyDict([function |-> [py |-> "list", repr |-> "['get_weather']"],
                 parameters |-> EmptyDict], src)
    [] src = J_nofn -> PyDict([parameters |-> EmptyDict], src)
    [] src = J_noparams -> PyDict([function |-> PyStr(<<"get_weather">>)], src)
    [] src = J_query -> PyDict([search_query |-> PyStr(<<"capital of France">>)], src)
    [] src = J_url_a -> PyDict([url |-> PyStr(<<"http://a.example">>)], src)
    [] OTHER -> PyDict([url |-> PyStr(<<"http://x.example">>)], src)

\* safe_read_json(string): the first well-formed JSON object of the text,
\* parsed; None when the text holds none.
safe_read_json(string) ==
  LET found == {i \in 1..Len(string.s) : string.s[i] \in JsonSources}
      first == CHOOSE i \in found : \A j \in found : i <= j
  IN IF found = {} THEN None ELSE JsonLoads(string.s[first])

\* The functions a FunctionCaller may be given: f.__name__ is f.name.  Two of
\* them share a name.
Func(name, sig) == [py |-> "function", name |-> name, repr |-> sig]

Functions ==
  {Func("get_weather", "get_weather(city: str)"),
   Func("get_weather", "get_weather(town: str)"),
   Func("get_time", "get_time()")}

\* generate_schema(functions): one description per function, in list order.
generate_schema(functions) ==
  PyStr([i \in 1..Len(functions.items) |-> functions.items[i].repr])

\* A header that names the whole path.
WholePath(path) == path

\* os.path.basename(path): the last component of the path.
basename(path) == IF path.s = <<>> THEN path ELSE PyStr(<<path.s[Len(path.s)]>>)

\* read_pdf(path): the text of the document at the path.
read_pdf(path) == PyStr(<<"<text of ">> \o path.s \o <<">">>)


(***************************************************************************)
(* The LLM client and the inputs of the operations.                        *)
(***************************************************************************)

\* An llm argument: None, an object without an ask method, a chat client.
Clients ==
  {None, [py |-> "object", repr |-> "object()"], [py |-> "OllamaChat", repr |-> "OllamaChat()"]}

\* hasattr(llm, "ask")
HasAsk(llm) == llm.py = "OllamaChat"

AnswerPrefix == "Based on information from the internet, "

\* The texts the client may answer with: prose, a JSON object alone or inside
\* prose, an opening brace that no JSON object follows.
Responses ==
  {PyStr(<<"I cannot help with that.">>),
   PyStr(<<"Sure, here it is: ", J_weather, " Anything else?">>),
   PyStr(<<J_flights>>),
   PyStr(<<J_listfn>>),
   PyStr(<<J_nofn>>),
   PyStr(<<J_noparams>>),
   PyStr(<<"{\"function\": ">>),
   PyStr(<<J_query>>),
   PyStr(<<J_url_a>>),
   PyStr(<<J_url_x>>),
   PyStr(<<AnswerPrefix, "Paris is the capital of France.">>)}

Questions ==
  {PyStr(<<"What's the weather in Paris?">>), PyStr(<<"What is the capital of France?">>)}

Paths == {PyStr(<<"docs/", "a.pdf">>), PyStr(<<"b.pdf">>)}

SeqsUpTo(S, n) == UNION {[1..k -> S] : k \in 0..n}

\* The pdf_files argument: left out (None) or a list of paths.
PathLists == {None} \cup {PyList(ps) : ps \in SeqsUpTo(Paths, MaxPaths)}

FunctionLists == {PyList(fs) : fs \in SeqsUpTo(Functions, MaxFunctions)}

Additional == {PyStr(<<"Answer in one sentence.">>)}

\* What internet_search, or a custom searcher, may return for a query.
SearchResults ==
  {PyList(<<>>), PyList(<<PyStr(<<"http://a.example">>), PyStr(<<"http://b.example">>)>>)}

\* What read_website may return for a url.
Pages == {EmptyStr, PyStr(<<"Paris is the capital of France.">>)}

\* The client is deterministic: asked the transcript it was asked in the
\* operation before, it answers as it did then; r is its answer otherwise.
Remembered(prompts) ==
  {last.trace[i].ret : i \in {j \in 1..Len(last.trace) :
                               /\ last.trace[j].ev = "llm.ask"
                               /\ last.trace[j].arg = prompts}}

Ask(prompts, r) ==
  IF Remembered(prompts) = {} THEN r ELSE CHOOSE x \in Remembered(prompts) : TRUE

\* The answers the client may give to a transcript.
Answers(prompts) == IF Remembered(prompts) = {} THEN Responses ELSE Remembered(prompts)

\* self.llm.ask(prompts): the call, as it shows to the client.
LlmAskTwice(prompts, response) ==
  <<Event("llm.ask", prompts, response), Event("llm.ask", prompts, response)>>

LlmAsk(prompts, response) == <<Event("llm.ask", prompts, response)>>

Warn(text) == <<Event("warnings.warn", text, None)>>

NoAskWarning ==
  PyStr(<<"llm object must have an ask function! See OllamaChat class in models.py for an example.">>)

(***************************************************************************)
(* class PdfReader                                                         *)
(***************************************************************************)
PdfReader_init(llm, pdf_files, additional_system_instructions, custom_system_prompt) ==
  [py |-> "PdfReader", repr |-> "PdfReader",
   llm |-> llm,
   pdf_files |-> pdf_files,
   additional_instructions |-> additional_system_instructions,
   system_prompt |-> get_yaml_prompt("DocumentReader"),
   custom_system_prompt |-> custom_system_prompt]

RECURSIVE PdfText(_)
PdfText(paths) ==
  IF paths = <<>> THEN <<>>
  ELSE <<"Contents of document ">> \o basename(Head(paths)).s \o <<" :\n">>
         \o read_pdf(Head(paths)).s \o <<"\n\n">> \o PdfText(Tail(paths))

ReadPdfEvents(paths) ==
  [i \in 1..Len(paths) |-> Event("read_pdf", paths[i], read_pdf(paths[i]))]

\* A get_prompt that formats whatever self.system_prompt holds.
PdfReader_stale_template(self) == self.system_prompt

\* The template get_prompt formats: the stored one, or the custom one.
PdfReader_template(self) ==
  IF self.custom_system_prompt = None
  THEN get_yaml_prompt("DocumentReader")
  ELSE self.custom_system_prompt

\* get_prompt(question, pdf_files): [outcome, self, trace].
PdfReader_get_prompt(self, question, pdf_files) ==
  IF pdf_files.py # "list"
  THEN [outcome |-> Raise("TypeError"), self |-> self, trace |-> <<>>]
  ELSE LET template == PdfReader_template(self)
           content == Format(template, [documents |-> PyStr(PdfText(pdf_files.items)),
                                        additional_instructions |-> self.additional_instructions])
           system == Message("system", content)
       IN IF IsExc(content)
          THEN [outcome |-> [kind |-> "raise", value |-> content],
                self |-> [self EXCEPT !.system_prompt = template],
                trace |-> ReadPdfEvents(pdf_files.items)]
          ELSE [outcome |-> Return(PyList(<<system, Message("user", question)>>)),
                self |-> [self EXCEPT !.system_prompt = system],
                trace |-> ReadPdfEvents(pdf_files.items)]

\* ask(question, pdf_files), the client answering r: [outcome, self, trace].
PdfReader_ask(self, question, pdf_files, r) ==
  IF self.llm = None
  THEN [outcome |-> Raise("ValueError"), self |-> self, trace |-> <<>>]
  ELSE LET p == PdfReader_get_prompt(self, question, pdf_files)
           prompts == p.outcome.value
           response == Ask(prompts, r)
       IN IF p.outcome.kind = "raise" THEN p
          ELSE IF ~HasAsk(self.llm)
          THEN [p EXCEPT !.outcome = Raise("AttributeError")]
          ELSE [p EXCEPT !.outcome = Return(response),
                         !.trace = p.trace \o LlmAsk(prompts, response)]


(***************************************************************************)
(* class FunctionCaller                                                    *)
(***************************************************************************)

\* A registry in which the first function of a name stays.
FunctionsDictFirstWins(functions) ==
  LET names == {functions[i].name : i \in 1..Len(functions)}
      firstOf(n) == CHOOSE i \in 1..Len(functions) :
                      /\ functions[i].name = n
                      /\ \A j \in 1..Len(functions) : functions[j].name = n => i <= j
  IN PyDict([n \in names |-> functions[firstOf(n)]], "functions_dict")

\* {func.__name__: func for func in functions}: a later function replaces an
\* earlier one of the same name.
FunctionsDict(functions) ==
  LET names == {functions[i].name : i \in 1..Len(functions)}
      lastOf(n) == CHOOSE i \in 1..Len(functions) :
                     /\ functions[i].name = n
                     /\ \A j \in 1..Len(functions) : functions[j].name = n => j <= i
  IN PyDict([n \in names |-> functions[lastOf(n)]], "functions_dict")

FunctionCaller_init(llm, functions, additional_system_instructions, custom_system_prompt) ==
  IF functions.py # "list" THEN Exc("TypeError")
  ELSE LET schema == generate_schema(functions)
           template == IF custom_system_prompt = None
                       THEN get_yaml_prompt("FunctionCaller")
                       ELSE custom_system_prompt
           content == Format(template, [schema |-> schema,
                                        additional_instructions |-> additional_system_instructions])
       IN IF IsExc(content) THEN content
          ELSE [py |-> "FunctionCaller", repr |-> "FunctionCaller",
                llm |-> llm,
                functions_dict |-> FunctionsDict(functions.items),
                additional_instructions |-> additional_system_instructions,
                schema |-> schema,
                system_prompt |-> Message("system", content)]

\* get_prompt(question)
FunctionCaller_get_prompt(self, question) ==
  PyList(<<self.system_prompt, Message("user", question)>>)

\* A decision that drops the parameters the model gave.
DecisionWithoutParameters(self, function_name, parameters, prompts, response) ==
  PyDict([function |-> GetItem(self.functions_dict, function_name),
          parameters |-> EmptyDict,
          prompts |-> prompts,
          raw_response |-> response], "decision")

\* The dict get_function returns on success.
Decision(self, function_name, parameters, prompts, response) ==
  PyDict([function |-> GetItem(self.functions_dict, function_name),
          parameters |-> parameters,
          prompts |-> prompts,
          raw_response |-> response], "decision")

NoFunctionWarning == PyStr(<<"llm did not respond with a function and parameters.">>)

InvalidFunctionWarning(function_name) ==
  Concat(ToStr(function_name), PyStr(<<" is not a valid function.">>))

\* get_function(question), the client answering r: [outcome, trace].
FunctionCaller_get_function(self, question, r) ==
  IF self.llm = None THEN [outcome |-> Raise("ValueError"), trace |-> <<>>]
  ELSE IF ~HasAsk(self.llm) THEN [outcome |-> Return(None), trace |-> Warn(NoAskWarning)]
  ELSE
    LET prompts == PyList(<<self.system_prompt, Message("user", question)>>)
        response == Ask(prompts, r)
        asked == LlmAsk(prompts, response)
        response_json == safe_read_json(response)
        function_name == response_json.d["function"]
        parameters == response_json.d["parameters"]
    IN IF response_json = None THEN [outcome |-> Return(None), trace |-> asked]
       ELSE IF "function" \notin DOMAIN response_json.d \/ "parameters" \notin DOMAIN response_json.d
       THEN [outcome |-> Return(None), trace |-> asked \o Warn(NoFunctionWarning)]
       ELSE IF ~Hashable(function_name)
       THEN [outcome |-> Raise("TypeError"), trace |-> asked]
       ELSE IF ~HasKey(self.functions_dict, function_name)
       THEN [outcome |-> Return(None),
             trace |-> asked \o Warn(InvalidFunctionWarning(function_name))]
       ELSE [outcome |-> Return(Decision(self, function_name, parameters, prompts, response)),
             trace |-> asked]

(***************************************************************************)
(* class Agent                                                             *)
(***************************************************************************)
Agent_init(llm, agent_type, additional_system_instructions, custom_system_prompt) ==
  IF custom_system_prompt = None /\ agent_type = None THEN Exc("ValueError")
  ELSE LET template == IF custom_system_prompt = None
                       THEN get_yaml_prompt(agent_type.value)
                       ELSE custom_system_prompt
           content == Format(template,
                             [additional_instructions |-> additional_system_instructions])
       IN IF IsExc(content) THEN content
          ELSE [py |-> "Agent", repr |-> "Agent",
                llm |-> llm,
                system_prompt |-> Message("system", content)]

\* get_prompt(question)
Agent_get_prompt(self, question) ==
  PyList(<<self.system_prompt, Message("user", question)>>)

\* An ask that answers None whatever the client says.
Agent_ask_dropping_answer(self, prompt, r) ==
  [outcome |-> Return(None), trace |-> <<>>]

\* ask(prompt), the client answering r: [outcome, trace].
Agent_ask(self, prompt, r) ==
  IF ~HasAsk(self.llm) THEN [outcome |-> Return(None), trace |-> Warn(NoAskWarning)]
  ELSE LET prompts == PyList(<<self.system_prompt, Message("user", prompt)>>)
           response == Ask(prompts, r)
       IN [outcome |-> Return(response), trace |-> LlmAsk(prompts, response)]


(***************************************************************************)
(* class OnlineAgent                                                       *)
(***************************************************************************)
OnlineAgent_init(llm, additional_system_instructions, custom_searcher) ==
  LET content == Format(get_yaml_prompt("OnlineSearcher"),
                        [additional_instructions |-> additional_system_instructions])
  IN [py |-> "OnlineAgent", repr |-> "OnlineAgent",
      llm |-> llm,
      system_prompt |-> Message("system", content),
      search_function |-> IF custom_searcher = None
                          THEN [py |-> "function", repr |-> "internet_search"]
                          ELSE custom_searcher]

\* A get_search_query that falls back on the question itself.
get_search_query_or_question(self, question, r) ==
  IF ~HasAsk(self.llm) THEN [outcome |-> Raise("AttributeError"), trace |-> <<>>]
  ELSE LET prompts == PyList(<<self.system_prompt, Message("user", question)>>)
           response == Ask(prompts, r)
           response_json == safe_read_json(response)
       IN [outcome |-> IF response_json # None /\ "search_query" \in DOMAIN response_json.d
                       THEN Return(response_json.d["search_query"])
                       ELSE Return(question),
           trace |-> LlmAsk(prompts, response)]

\* get_search_query(question), the client answering r: [outcome, trace].
get_search_query(self, question, r) ==
  IF ~HasAsk(self.llm) THEN [outcome |-> Raise("AttributeError"), trace |-> <<>>]
  ELSE LET prompts == PyList(<<self.system_prompt, Message("user", question)>>)
           response == Ask(prompts, r)
           response_json == safe_read_json(response)
       IN [outcome |-> IF response_json # None /\ "search_query" \in DOMAIN response_json.d
                       THEN Return(response_json.d["search_query"])
                       ELSE Return(None),
           trace |-> LlmAsk(prompts, response)]

\* " ".join(search_results)
RECURSIVE Join(_)
Join(items) ==
  IF items = <<>> THEN <<>>
  ELSE IF Len(items) = 1 THEN Head(items).s
  ELSE Head(items).s \o <<" ">> \o Join(Tail(items))

UrlWarning == PyStr(<<"LLM did not respond with valid url or json response.">>)

\* The system message of the url picker, and the transcript sent with it.
UrlPickerContent(prompt, results) ==
  Format(get_yaml_prompt("UrlPicker"),
         [question |-> prompt, urls |-> PyStr(Join(results.items))])

UrlPickerPrompts(prompt, results) ==
  PyList(<<Message("system", UrlPickerContent(prompt, results))>>)

\* A url picking that goes on without a url.
pick_url_going_on(self, prompt, query, results, r) ==
  LET searched == <<Event("search_function", query, results)>>
      prompts == UrlPickerPrompts(prompt, results)
      resp == Ask(prompts, r)
      resp_json == safe_read_json(resp)
  IN IF resp_json # None /\ "url" \in DOMAIN resp_json.d
     THEN [done |-> FALSE, outcome |-> Return(resp_json.d["url"]),
           trace |-> searched \o LlmAsk(prompts, resp)]
     ELSE [done |-> FALSE, outcome |-> Return(None),
           trace |-> searched \o LlmAsk(prompts, resp) \o Warn(UrlWarning)]

\* A url picking that searches for the question instead of the query.
pick_url_searching_question(self, prompt, query, results, r) ==
  LET searched == <<Event("search_function", prompt, results)>>
      prompts == UrlPickerPrompts(prompt, results)
      resp == Ask(prompts, r)
      resp_json == safe_read_json(resp)
  IN IF resp_json # None /\ "url" \in DOMAIN resp_json.d
     THEN [done |-> FALSE, outcome |-> Return(resp_json.d["url"]),
           trace |-> searched \o LlmAsk(prompts, resp)]
     ELSE [done |-> TRUE, outcome |-> Return(None),
           trace |-> searched \o LlmAsk(prompts, resp) \o Warn(UrlWarning)]

\* The second and third steps of search: the searcher returning results, the
\* client answering r: [done, outcome, trace]; search ends here when done, and
\* goes on with the url the outcome returns otherwise.
pick_url(self, prompt, query, results, r) ==
  LET searched == <<Event("search_function", query, results)>>
      content == UrlPickerContent(prompt, results)
      prompts == UrlPickerPrompts(prompt, results)
      resp == Ask(prompts, r)
      resp_json == safe_read_json(resp)
  IN IF IsExc(content)
     THEN [done |-> TRUE, outcome |-> [kind |-> "raise", value |-> content],
           trace |-> searched]
     ELSE IF resp_json # None /\ "url" \in DOMAIN resp_json.d
     THEN [done |-> FALSE, outcome |-> Return(resp_json.d["url"]),
           trace |-> searched \o LlmAsk(prompts, resp)]
     ELSE [done |-> TRUE, outcome |-> Return(None),
           trace |-> searched \o LlmAsk(prompts, resp) \o Warn(UrlWarning)]

\* The user prompt of the last step.
SynthesisPrompt(url, website_text, prompt) ==
  PyStr(<<"Please read the following information: Information about Website ">>
        \o ToStr(url).s \o <<": ">> \o website_text.s
        \o <<" Answer the following question based on the above information: ">>
        \o prompt.s \o <<" Start your answer with \"", AnswerPrefix, "\"">>)

\* The Agent that search builds for its last step.
FinalResponder(self) == Agent_init(self.llm, GENERIC_RESPONDER, EmptyStr, None)

\* A search that gives up on a page without text.
OnlineAgent_search_needing_text(self, prompt, r1, results, r3, page, r4) ==
  LET query == get_search_query(self, prompt, r1)
      picked == pick_url(self, prompt, query.outcome.value, results, r3)
      url == picked.outcome.value
      answer == Agent_ask(FinalResponder(self), SynthesisPrompt(url, page, prompt), r4)
  IN IF query.outcome.kind = "raise" \/ query.outcome.value = None THEN query
     ELSE IF picked.done
     THEN [outcome |-> picked.outcome, trace |-> query.trace \o picked.trace]
     ELSE IF page = EmptyStr
     THEN [outcome |-> Return(None),
           trace |-> query.trace \o picked.trace \o <<Event("read_website", url, page)>>]
     ELSE [outcome |-> answer.outcome,
           trace |-> query.trace \o picked.trace
                       \o <<Event("read_website", url, page)>> \o answer.trace]

\* search(prompt): the client answering r1, r3 and r4, the searcher returning
\* results and read_website returning page: [outcome, trace].
OnlineAgent_search(self, prompt, r1, results, r3, page, r4) ==
  LET query == get_search_query(self, prompt, r1)
      picked == pick_url(self, prompt, query.outcome.value, results, r3)
      url == picked.outcome.value
      user_prompt == SynthesisPrompt(url, page, prompt)
      final_responder == FinalResponder(self)
      answer == Agent_ask(final_responder, user_prompt, r4)
  IN IF query.outcome.kind = "raise" \/ query.outcome.value = None THEN query
     ELSE IF picked.done
     THEN [outcome |-> picked.outcome, trace |-> query.trace \o picked.trace]
     ELSE [outcome |-> answer.outcome,
           trace |-> query.trace \o picked.trace
                       \o <<Event("read_website", url, page)>> \o answer.trace]


(***************************************************************************)
(* The state machine.  A program builds one component and calls its public *)
(* operations one after the other; the components share no state, so the   *)
(* other three are left unbuilt (None).  last is the operation that ended  *)
(* last: its name, arguments, outcome and the calls it made, in order.     *)
(* prev is the outcome and calls of the operation before it, when both are *)
(* the same answering operation (PdfReader.ask, Agent.ask) with the same   *)
(* arguments, and None otherwise.  construction is the constructor call    *)
(* that built the component: the class and the arguments.                  *)
(***************************************************************************)
CustomDocumentPrompt == PyStr(<<"Answer from: ", "{documents}">>)

CustomFunctionPrompt == PyStr(<<"Choose from: ", "{schema}">>)

CustomAgentPrompt == PyStr(<<"You are a pirate.">>)

Built(obj) == obj # None /\ ~IsExc(obj)

Operation(op, args, res) == [op |-> op, args |-> args, outcome |-> res.outcome, trace |-> res.trace]

\* Custom system prompts that hold a placeholder no component supplies.
BadDocumentPrompt == PyStr(<<"Answer from: ", "{documents}", "{undefined}">>)

BadFunctionPrompt == PyStr(<<"Choose from: ", "{schema}", "{undefined}">>)

BadAgentPrompt == PyStr(<<"You are a pirate. ", "{undefined}">>)

Construction(cls, args) == [cls |-> cls, args |-> args]

Init ==
  /\ last = [op |-> "__init__", args |-> <<>>, outcome |-> Return(None), trace |-> <<>>]
  /\ prev = None
  /\ \E llm \in Clients, additional \in Additional :
       \/ /\ \E pdf_files \in {None, PyList(<<PyStr(<<"docs/", "a.pdf">>)>>)},
                custom \in {None, CustomDocumentPrompt, BadDocumentPrompt} :
                /\ pdfReader = PdfReader_init(llm, pdf_files, additional, custom)
                /\ construction = Construction("PdfReader",
                                                <<llm, pdf_files, additional, custom>>)
          /\ functionCaller = None /\ onlineAgent = None /\ agent = None
       \/ /\ \E functions \in FunctionLists,
                custom \in {None, CustomFunctionPrompt, BadFunctionPrompt} :
                /\ functionCaller = FunctionCaller_init(llm, functions, additional, custom)
                /\ construction = Construction("FunctionCaller",
                                                <<llm, functions, additional, custom>>)
          /\ pdfReader = None /\ onlineAgent = None /\ agent = None
       \/ /\ onlineAgent = OnlineAgent_init(llm, additional, None)
          /\ construction = Construction("OnlineAgent", <<llm, additional, None>>)
          /\ pdfReader = None /\ functionCaller = None /\ agent = None
       \/ /\ \E custom \in {None, CustomAgentPrompt, BadAgentPrompt} :
                LET agent_type == IF custom = None THEN GENERIC_RESPONDER ELSE None
                IN /\ agent = Agent_init(llm, agent_type, additional, custom)
                   /\ construction = Construction("Agent",
                                                   <<llm, agent_type, additional, custom>>)
          /\ pdfReader = None /\ functionCaller = None /\ onlineAgent = None

AnswerOps == {"PdfReader.ask", "Agent.ask"}

Done(op, args, res) ==
  /\ last' = Operation(op, args, res)
  /\ prev' = IF op \in AnswerOps /\ last.op = op /\ last.args = args
             THEN [outcome |-> last.outcome, trace |-> last.trace]
             ELSE None
  /\ UNCHANGED construction

PdfReaderAsk ==
  /\ Built(pdfReader)
  /\ \E question \in Questions, pdf_files \in PathLists :
       LET p == PdfReader_get_prompt(pdfReader, question, pdf_files)
           asks == HasAsk(pdfReader.llm) /\ p.outcome.kind = "return"
       IN \E r \in IF asks THEN Answers(p.outcome.value) ELSE {EmptyStr} :
            LET res == PdfReader_ask(pdfReader, question, pdf_files, r)
            IN /\ pdfReader' = res.self
               /\ Done("PdfReader.ask", <<question, pdf_files>>, res)
  /\ UNCHANGED <<functionCaller, onlineAgent, agent>>

PdfReaderGetPrompt ==
  /\ Built(pdfReader)
  /\ \E question \in Questions, pdf_files \in PathLists :
       LET res == PdfReader_get_prompt(pdfReader, question, pdf_files)
       IN /\ pdfReader' = res.self
          /\ Done("PdfReader.get_prompt", <<question, pdf_files>>, res)
  /\ UNCHANGED <<functionCaller, onlineAgent, agent>>

FunctionCallerGetFunction ==
  /\ Built(functionCaller)
  /\ \E question \in Questions :
       \E r \in IF HasAsk(functionCaller.llm)
                THEN Answers(FunctionCaller_get_prompt(functionCaller, question))
                ELSE {EmptyStr} :
         Done("FunctionCaller.get_function", <<question>>,
              FunctionCaller_get_function(functionCaller, question, r))
  /\ UNCHANGED <<pdfReader, functionCaller, onlineAgent, agent>>

FunctionCallerGetPrompt ==
  /\ Built(functionCaller)
  /\ \E question \in Questions :
       Done("FunctionCaller.get_prompt", <<question>>,
            [outcome |-> Return(FunctionCaller_get_prompt(functionCaller, question)),
             trace |-> <<>>])
  /\ UNCHANGED <<pdfReader, functionCaller, onlineAgent, agent>>

\* The inputs of a step of search that is not reached are left out.
OnlineAgentSearch ==
  /\ Built(onlineAgent)
  /\ \E prompt \in Questions :
       \E r1 \in IF HasAsk(onlineAgent.llm)
                 THEN Answers(PyList(<<onlineAgent.system_prompt, Message("user", prompt)>>))
                 ELSE {EmptyStr} :
         LET query == get_search_query(onlineAgent, prompt, r1)
             first == query.outcome.kind = "return" /\ query.outcome.value # None
         IN \E results \in IF first THEN SearchResults ELSE {PyList(<<>>)} :
              \E r3 \in IF first THEN Answers(UrlPickerPrompts(prompt, results))
                        ELSE {EmptyStr} :
                LET picked == pick_url(onlineAgent, prompt, query.outcome.value, results, r3)
                    second == first /\ ~picked.done
                IN \E page \in IF second THEN Pages ELSE {EmptyStr} :
                     \E r4 \in IF second
                               THEN Answers(Agent_get_prompt(FinalResponder(onlineAgent),
                                      SynthesisPrompt(picked.outcome.value, page, prompt)))
                               ELSE {EmptyStr} :
                       Done("OnlineAgent.search", <<prompt>>,
                            OnlineAgent_search(onlineAgent, prompt, r1, results, r3, page, r4))
  /\ UNCHANGED <<pdfReader, functionCaller, onlineAgent, agent>>

AgentAsk ==
  /\ Built(agent)
  /\ \E prompt \in Questions :
       \E r \in IF HasAsk(agent.llm) THEN Answers(Agent_get_prompt(agent, prompt))
                ELSE {EmptyStr} :
         Done("Agent.ask", <<prompt>>, Agent_ask(agent, prompt, r))
  /\ UNCHANGED <<pdfReader, functionCaller, onlineAgent, agent>>

AgentGetPrompt ==
  /\ Built(agent)
  /\ \E question \in Questions :
       Done("Agent.get_prompt", <<question>>,
            [outcome |-> Return(Agent_get_prompt(agent, question)), trace |-> <<>>])
  /\ UNCHANGED <<pdfReader, functionCaller, onlineAgent, agent>>

Next ==
  \/ PdfReaderAsk
  \/ PdfReaderGetPrompt
  \/ FunctionCallerGetFunction
  \/ FunctionCallerGetPrompt
  \/ OnlineAgentSearch
  \/ AgentAsk
  \/ AgentGetPrompt

Spec == Init /\ [][Next]_vars


(***************************************************************************)
(* What the claims read off an operation.                                  *)
(***************************************************************************)
IsAsk(e) == e.ev = "llm.ask"

IsWarning(e) == e.ev = "warnings.warn"

\* The calls of the client's ask the last operation made, in order.
Asks == SelectSeq(last.trace, IsAsk)

\* The warnings the last operation emitted, in order.
Warnings == SelectSeq(last.trace, IsWarning)

\* The client the built component is bound to.
BoundClient ==
  IF Built(pdfReader) THEN pdfReader.llm
  ELSE IF Built(functionCaller) THEN functionCaller.llm
  ELSE IF Built(onlineAgent) THEN onlineAgent.llm
  ELSE agent.llm

GetFunctionAsked == last.op = "FunctionCaller.get_function" /\ Asks # <<>>

\* The object extracted from the response to a get_function.
Extracted == safe_read_json(Asks[1].ret)

NoJson == Extracted = None

MissingKey ==
  /\ Extracted # None
  /\ ("function" \notin DOMAIN Extracted.d \/ "parameters" \notin DOMAIN Extracted.d)

HasBothKeys ==
  /\ Extracted # None
  /\ "function" \in DOMAIN Extracted.d
  /\ "parameters" \in DOMAIN Extracted.d

\* The "function" value is the name of a registered function.
NamesRegistered ==
  /\ HasBothKeys
  /\ Extracted.d["function"].py = "str"
  /\ \E n \in DOMAIN functionCaller.functions_dict.d : Extracted.d["function"] = PyStr(<<n>>)

\* C1: get_function returns None when (a) the response holds no JSON object,
\* (b) the object lacks the "function" or the "parameters" key, (c) its
\* "function" value is not a name in the registry.
C1_NoneInThreeCases ==
  (GetFunctionAsked /\ (NoJson \/ MissingKey \/ (HasBothKeys /\ ~NamesRegistered)))
    => last.outcome = Return(None)

\* C2: when the extracted object has a "function" key naming a registered
\* function and a "parameters" key, get_function returns a decision whose
\* function is the registry entry of that name, whose parameters are the
\* extracted "parameters" value, whose transcript is the [system prompt,
\* user message(request text)] sent to the client, and whose raw_response is
\* the text the client returned.
C2_DecisionOnSuccess ==
  (GetFunctionAsked /\ NamesRegistered) =>
    LET sent == PyList(<<functionCaller.system_prompt, Message("user", last.args[1])>>)
    IN /\ Len(Asks) = 1
       /\ Asks[1].arg = sent
       /\ last.outcome.kind = "return"
       /\ last.outcome.value.py = "dict"
       /\ last.outcome.value.d =
            [function |-> functionCaller.functions_dict.d[Extracted.d["function"].s[1]],
             parameters |-> Extracted.d["parameters"],
             prompts |-> sent,
             raw_response |-> Asks[1].ret]

C2_Witness ==
  /\ GetFunctionAsked
  /\ NamesRegistered
  /\ last.outcome.kind = "return"
  /\ last.outcome.value.py = "dict"
  /\ Extracted.d["parameters"] # EmptyDict

SearchAsked == last.op = "OnlineAgent.search" /\ Asks # <<>>

\* The first step of search yields no query.
NoQuery ==
  LET obj == safe_read_json(Asks[1].ret)
  IN obj = None \/ "search_query" \notin DOMAIN obj.d

\* C3: when the first response of search fails extraction or its object has
\* no "search_query" key, search returns None and calls nothing after the
\* first ask: not the searcher, not read_website, not the client again.
C3_ShortCircuit ==
  (SearchAsked /\ NoQuery) => /\ last.outcome = Return(None)
                              /\ Len(last.trace) = 1

C3_Witness ==
  /\ SearchAsked
  /\ NoQuery
  /\ safe_read_json(Asks[1].ret) # None
  /\ last.outcome = Return(None)

\* C4: whatever text the client answers, a public operation that asked it
\* ends with a return value, never a raised error.
C4_NoExceptionFromResponse ==
  (last.op \in {"FunctionCaller.get_function", "OnlineAgent.search", "Agent.ask",
                "PdfReader.ask"} /\ Asks # <<>>)
    => last.outcome.kind = "return"

\* C5: an operation called on a component whose client is None or lacks ask
\* ends with a configuration error raised before the client is used: it
\* neither returns (None) nor fails at the ask call with an AttributeError.
C5_MissingClientIsConfigError ==
  (last.op \in {"FunctionCaller.get_function", "OnlineAgent.search", "Agent.ask",
                "PdfReader.ask"} /\ ~HasAsk(BoundClient))
    => last.outcome = Raise("ValueError")

\* A transcript of one system message followed by one user message.
SystemThenUser(prompts) ==
  /\ prompts.py = "list"
  /\ Len(prompts.items) = 2
  /\ prompts.items[1].d.role = PyStr(<<"system">>)
  /\ prompts.items[2].d.role = PyStr(<<"user">>)

\* C6: every transcript passed to the client's ask, in every operation and
\* step, is one system message followed by one user message.
C6_TwoMessageTranscripts ==
  \A i \in 1..Len(Asks) : SystemThenUser(Asks[i].arg)

\* C7: a get_function with a usable client calls the client's ask exactly
\* once, whatever the outcome.
C7_AskExactlyOnce ==
  (last.op = "FunctionCaller.get_function" /\ HasAsk(functionCaller.llm))
    => Len(Asks) = 1

C7_Witness ==
  /\ last.op = "FunctionCaller.get_function"
  /\ HasAsk(functionCaller.llm)
  /\ NoJson
  /\ Len(Asks) = 1

\* C8: each of the three failure modes of get_function (no JSON object, a
\* missing key, an unknown function name) emits a signal of its own, so that
\* no two of them end alike.
C8_DistinctFailureSignals ==
  (GetFunctionAsked /\ last.outcome = Return(None)) =>
    /\ Len(Warnings) = 1
    /\ NoJson =>
         /\ Warnings[1].arg # NoFunctionWarning
         /\ Warnings[1].arg.s[Len(Warnings[1].arg.s)] # " is not a valid function."
    /\ MissingKey => Warnings[1].arg = NoFunctionWarning
    /\ (HasBothKeys /\ ~NamesRegistered) =>
         Warnings[1].arg = InvalidFunctionWarning(Extracted.d["function"])

\* The first step of search yielded a query and the third a url.
QueryAndUrl ==
  /\ SearchAsked
  /\ ~NoQuery
  /\ Len(Asks) >= 2
  /\ LET obj == safe_read_json(Asks[2].ret)
     IN obj # None /\ "url" \in DOMAIN obj.d

StartsWithPrefix(text) == text.py = "str" /\ text.s # <<>> /\ text.s[1] = AnswerPrefix

\* C9, as claimed: when the first step yields a query and the third a url,
\* the answer search returns is not None and begins with
\* "Based on information from the internet, ".
C9_AnswerHasPrefix ==
  QueryAndUrl => /\ last.outcome.kind = "return"
                 /\ StartsWithPrefix(last.outcome.value)

\* C9, amended: when the first step yields a query and the third a url, the
\* answer search returns is the text the client answered to the third ask,
\* whose user message tells the client to start with the prefix.
C9_AnswerIsClientText ==
  QueryAndUrl =>
    /\ Len(Asks) = 3
    /\ last.outcome = Return(Asks[3].ret)
    /\ Asks[3].ret.py = "str"
    /\ LET user == Asks[3].arg.items[2].d.content.s
       IN /\ Len(user) >= 3
          /\ user[Len(user) - 2] = " Start your answer with \""
          /\ user[Len(user) - 1] = AnswerPrefix

C9_Witness ==
  /\ QueryAndUrl
  /\ last.outcome.kind = "return"
  /\ StartsWithPrefix(last.outcome.value)

\* C10: Agent.ask or PdfReader.ask called twice in a row on one instance with
\* the same arguments sends the same transcript and returns the same output.
C10_Idempotent ==
  (last.op \in AnswerOps /\ prev # None) =>
    /\ Asks = SelectSeq(prev.trace, IsAsk)
    /\ last.outcome = prev.outcome

C10_Witness ==
  /\ last.op = "PdfReader.ask"
  /\ prev # None
  /\ Asks # <<>>
  /\ last.outcome.kind = "return"
  /\ pdfReader.custom_system_prompt # None


\* The system prompt each constructor leaves in the instance it builds.
BuiltSystemPrompt ==
  LET a == construction.args
  IN CASE construction.cls = "PdfReader" -> PdfReader_init(a[1], a[2], a[3], a[4]).system_prompt
       [] construction.cls = "FunctionCaller" ->
            FunctionCaller_init(a[1], a[2], a[3], a[4]).system_prompt
       [] construction.cls = "OnlineAgent" -> OnlineAgent_init(a[1], a[2], a[3]).system_prompt
       [] OTHER -> Agent_init(a[1], a[2], a[3], a[4]).system_prompt

\* The component that was built, if the constructor returned.
Component ==
  CASE construction.cls = "PdfReader" -> pdfReader
    [] construction.cls = "FunctionCaller" -> functionCaller
    [] construction.cls = "OnlineAgent" -> onlineAgent
    [] OTHER -> agent

\* C11: after construction no public operation changes a component's
\* system_prompt (nor a FunctionCaller's registry and schema): after any
\* sequence of calls it is what the constructor left.
C11_SystemPromptFixed ==
  Built(Component) =>
    /\ Component.system_prompt = BuiltSystemPrompt
    /\ construction.cls = "FunctionCaller" =>
         LET a == construction.args
             built == FunctionCaller_init(a[1], a[2], a[3], a[4])
         IN /\ functionCaller.functions_dict = built.functions_dict
            /\ functionCaller.schema = built.schema

\* C12: a placeholder of a system-prompt template that the component does not
\* supply fails the construction of the component, never a later call: no
\* public operation ends with the KeyError of an unresolved placeholder.
C12_PlaceholderFailsAtConstruction ==
  last.op # "__init__" =>
    ~(last.outcome.kind = "raise" /\ last.outcome.value.py = "KeyError")

\* The functions given to the FunctionCaller constructor.
GivenFunctions == construction.args[2].items

\* C13: when the function list holds several functions of one name, the
\* construction succeeds and the registry maps the name to the last of them;
\* a get_function whose response names it returns that last function.
C13_LastRegistrationWins ==
  (construction.cls = "FunctionCaller" /\ construction.args[4] # BadFunctionPrompt) =>
    /\ Built(functionCaller)
    /\ \A i \in 1..Len(GivenFunctions) :
         (\A j \in 1..Len(GivenFunctions) :
            GivenFunctions[j].name = GivenFunctions[i].name => j <= i)
         => /\ functionCaller.functions_dict.d[GivenFunctions[i].name] = GivenFunctions[i]
            /\ (GetFunctionAsked /\ NamesRegistered
                  /\ Extracted.d["function"] = PyStr(<<GivenFunctions[i].name>>))
               => /\ last.outcome.kind = "return"
                  /\ last.outcome.value.py = "dict"
                  /\ last.outcome.value.d.function = GivenFunctions[i]

C13_Witness ==
  /\ construction.cls = "FunctionCaller"
  /\ Len(GivenFunctions) = 2
  /\ GivenFunctions[1].name = GivenFunctions[2].name
  /\ GivenFunctions[1] # GivenFunctions[2]
  /\ GetFunctionAsked
  /\ NamesRegistered
  /\ last.outcome.kind = "return"
  /\ last.outcome.value.py = "dict"
  /\ last.outcome.value.d.function = GivenFunctions[2]

IsRead(e) == e.ev = "read_pdf"

\* The header and text of the documents at the paths, in order.
RECURSIVE Documents(_)
Documents(paths) ==
  IF paths = <<>> THEN <<>>
  ELSE LET path == Head(paths)
       IN <<"Contents of document ", path.s[Len(path.s)], " :\n">>
            \o <<"<text of ">> \o path.s \o <<">", "\n\n">> \o Documents(Tail(paths))

\* C14: PdfReader.ask(question, paths) reads each path once, in the order
\* given, and the document text of the system message is, path after path, a
\* header naming the file's basename followed by the document's text.
C14_DocumentsInOrder ==
  (last.op = "PdfReader.ask" /\ pdfReader.llm # None /\ last.args[2].py = "list") =>
    LET paths == last.args[2].items
        reads == SelectSeq(last.trace, IsRead)
    IN /\ Len(reads) = Len(paths)
       /\ \A i \in 1..Len(paths) : reads[i].arg = paths[i]
       /\ Asks # <<>> =>
            LET content == Asks[1].arg.items[1].d.content.s
            IN /\ Len(content) >= 1 + Len(Documents(paths))
               /\ SubSeq(content, 2, 1 + Len(Documents(paths))) = Documents(paths)

C14_Witness ==
  /\ last.op = "PdfReader.ask"
  /\ last.args[2].py = "list"
  /\ Len(last.args[2].items) = 2
  /\ last.args[2].items[1] # last.args[2].items[2]
  /\ Asks # <<>>

\* The first step of search yielded a query and the third no url.
QueryAndNoUrl ==
  /\ SearchAsked
  /\ ~NoQuery
  /\ Len(Asks) >= 2
  /\ LET obj == safe_read_json(Asks[2].ret)
     IN obj = None \/ "url" \notin DOMAIN obj.d

\* C15: when the url-picking response of search fails extraction or its
\* object has no "url" key, search warns and returns None, and calls neither
\* read_website nor the client again.
C15_NoUrlAborts ==
  QueryAndNoUrl =>
    /\ last.outcome = Return(None)
    /\ Len(Warnings) = 1
    /\ Warnings[1].arg = UrlWarning
    /\ Len(Asks) = 2
    /\ \A i \in 1..Len(last.trace) : last.trace[i].ev # "read_website"
    /\ last.trace[Len(last.trace)].ev = "warnings.warn"

C15_Witness ==
  /\ QueryAndNoUrl
  /\ safe_read_json(Asks[2].ret) # None
  /\ last.outcome = Return(None)

IsExternal(e) == e.ev # "warnings.warn"

\* C16: a search that returns an answer made exactly these calls, in this
\* order: ask, the searcher with the extracted search_query, ask,
\* read_website with the extracted url, ask; the three asks go to the client
\* the OnlineAgent is bound to.
C16_CallsInOrder ==
  (last.op = "OnlineAgent.search" /\ last.outcome.kind = "return"
     /\ last.outcome.value # None) =>
    LET calls == SelectSeq(last.trace, IsExternal)
    IN /\ Len(calls) = 5
       /\ calls[1].ev = "llm.ask"
       /\ calls[2].ev = "search_function"
       /\ calls[2].arg = safe_read_json(calls[1].ret).d["search_query"]
       /\ calls[3].ev = "llm.ask"
       /\ calls[4].ev = "read_website"
       /\ calls[4].arg = safe_read_json(calls[3].ret).d["url"]
       /\ calls[5].ev = "llm.ask"
       /\ FinalResponder(onlineAgent).llm = onlineAgent.llm

C16_Witness ==
  /\ last.op = "OnlineAgent.search"
  /\ last.outcome.kind = "return"
  /\ last.outcome.value # None
  /\ last.args[1] # safe_read_json(Asks[1].ret).d["search_query"]

IsPageRead(e) == e.ev = "read_website"

\* read_website returned an empty text.
EmptyPage ==
  LET pages == SelectSeq(last.trace, IsPageRead)
  IN Len(pages) = 1 /\ pages[1].ret = EmptyStr

\* C17: when the first and third steps succeed and read_website returns an
\* empty text, search still asks the client for the answer and returns the
\* client's text, not None.
C17_EmptyPageStillAnswers ==
  (QueryAndUrl /\ EmptyPage) =>
    /\ Len(Asks) = 3
    /\ last.trace[Len(last.trace)] = Asks[3]
    /\ last.outcome = Return(Asks[3].ret)
    /\ last.outcome.value # None

C17_Witness ==
  /\ QueryAndUrl
  /\ EmptyPage
  /\ last.outcome.kind = "return"
  /\ last.outcome.value # None

\* C18: ask(question) on a PdfReader built with a list of pdf_files reads
\* those files: it returns the client's text, and the system message it
\* sent holds their text.
C18_ConstructorFilesAreRead ==
  (/\ last.op = "PdfReader.ask"
   /\ last.args[2] = None
   /\ pdfReader.pdf_files # None
   /\ HasAsk(pdfReader.llm)
   /\ pdfReader.custom_system_prompt # BadDocumentPrompt) =>
    /\ last.outcome.kind = "return"
    /\ Len(Asks) = 1
    /\ LET content == Asks[1].arg.items[1].d.content.s
           documents == Documents(pdfReader.pdf_files.items)
       IN /\ Len(content) >= 1 + Len(documents)
          /\ SubSeq(content, 2, 1 + Len(documents)) = documents

IsSearch(e) == e.ev = "search_function"

\* C19: read_website is only called with a url that the searcher returned in
\* this search.
C19_FetchedUrlWasFound ==
  \A i \in 1..Len(last.trace) :
    last.trace[i].ev = "read_website" =>
      \E j \in 1..Len(last.trace) :
        /\ last.trace[j].ev = "search_function"
        /\ \E k \in 1..Len(last.trace[j].ret.items) :
             last.trace[j].ret.items[k] = last.trace[i].arg

=============================================================================
